---- MODULE Spec2Model ----
(***************************************************************************)
(* TCP port scanner (scanner.py): the port-spec parser, the address        *)
(* expansion done by producer, the consumer pool over the two asyncio      *)
(* queues, and orchestrator's wait / re-raise / drain / sort.              *)
(*                                                                         *)
(* Python strings are sequences of one-character strings, so that          *)
(* str.split, int(), re.match and str() are modelled by what they do.      *)
(***************************************************************************)
EXTENDS Integers, Sequences, FiniteSets, TLC

(***************************************************************************)
(* Bounds of the model.                                                    *)
(***************************************************************************)
\* longest port string enumerated exhaustively over Alphabet
MaxLen == 4
\* size of the consumer pool (MAX_CONSUMERS = 1000 in the source, scaled)
MAX_CONSUMERS == 3

\* default of orchestrator's timeout parameter
DefaultTimeout == 2

(***************************************************************************)
(* Characters and strings.                                                 *)
(***************************************************************************)
Digits == {"0", "1", "2", "3", "4", "5", "6", "7", "8", "9"}

Whitespace == {" "}

DigitVal(ch) ==
    CASE ch = "0" -> 0 [] ch = "1" -> 1 [] ch = "2" -> 2 [] ch = "3" -> 3
      [] ch = "4" -> 4 [] ch = "5" -> 5 [] ch = "6" -> 6 [] ch = "7" -> 7
      [] ch = "8" -> 8 [] ch = "9" -> 9

DigitChar(d) ==
    CASE d = 0 -> "0" [] d = 1 -> "1" [] d = 2 -> "2" [] d = 3 -> "3"
      [] d = 4 -> "4" [] d = 5 -> "5" [] d = 6 -> "6" [] d = 7 -> "7"
      [] d = 8 -> "8" [] d = 9 -> "9"

\* str.split(sep): the pieces between occurrences of the separator
RECURSIVE SplitAcc(_, _, _, _)
SplitAcc(s, sep, i, cur) ==
    IF i > Len(s) THEN <<cur>>
    ELSE IF s[i] = sep THEN <<cur>> \o SplitAcc(s, sep, i + 1, <<>>)
    ELSE SplitAcc(s, sep, i + 1, Append(cur, s[i]))

Split(s, sep) == SplitAcc(s, sep, 1, <<>>)

\* str.strip() as int() applies it: leading and trailing whitespace removed
RECURSIVE LStrip(_)
LStrip(s) ==
    IF s # <<>> /\ Head(s) \in Whitespace THEN LStrip(Tail(s)) ELSE s

RECURSIVE RStrip(_)
RStrip(s) ==
    IF s # <<>> /\ s[Len(s)] \in Whitespace
    THEN RStrip(SubSeq(s, 1, Len(s) - 1)) ELSE s

Strip(s) == RStrip(LStrip(s))

\* the body of a Python integer literal after the sign: digits, with single
\* underscores allowed between digits
IsDigitBody(b) ==
    /\ b # <<>>
    /\ \A i \in 1..Len(b) : b[i] \in Digits \cup {"_"}
    /\ b[1] \in Digits
    /\ b[Len(b)] \in Digits
    /\ \A i \in 1..(Len(b) - 1) : ~(b[i] = "_" /\ b[i + 1] = "_")

RECURSIVE DigitBodyVal(_, _)
DigitBodyVal(b, acc) ==
    IF b = <<>> THEN acc
    ELSE IF Head(b) = "_" THEN DigitBodyVal(Tail(b), acc)
    ELSE DigitBodyVal(Tail(b), 10 * acc + DigitVal(Head(b)))

Unsigned(t) == IF t # <<>> /\ Head(t) \in {"+", "-"} THEN Tail(t) ELSE t

\* int(x) raises ValueError exactly when ~IntOk(x)
IntOk(x) == IsDigitBody(Unsigned(Strip(x)))

\* the value of a stripped integer literal
LiteralVal(t) ==
    IF t # <<>> /\ Head(t) = "-" THEN 0 - DigitBodyVal(Tail(t), 0)
    ELSE DigitBodyVal(Unsigned(t), 0)

\* int(x)
Int_(x) == LiteralVal(Strip(x))

Min(a, b) == IF a <= b THEN a ELSE b

Max(a, b) == IF a >= b THEN a ELSE b

\* list(range(start, end))
RangeSeq(start, end) ==
    IF end <= start THEN <<>> ELSE [i \in 1..(end - start) |-> start + i - 1]

SeqToSet(s) == {s[i] : i \in 1..Len(s)}

(***************************************************************************)
(* parse_ports                                                             *)
(***************************************************************************)
\* the character class [\d\-,\s]
PortChars == Digits \cup {"-", ","} \cup Whitespace

\* re.match(r"[\d\-,\s]+", port_str): one or more class characters at the
\* START of the string; nothing is required of the rest of the string
ReMatch(port_str) == port_str # <<>> /\ port_str[1] \in PortChars

\* port_list = [x for x in port_str.split(",") if x]
PortList(port_str) == SelectSeq(Split(port_str, ","), LAMBDA x : x # <<>>)

\* the check  -1 < p < 65536
PortInRange(p) == -1 < p /\ p < 65536

\* range(start, end) with the end included
RangeOf_inclusive(start, end) == RangeSeq(start, end + 1)

\* range(start, end) of the range branch
RangeOf(start, end) == RangeSeq(start, end)

\* lines 104-107: the ports of range(start, end), each checked
AppendRange(r, ports) ==
    IF \E i \in 1..Len(r) : ~PortInRange(r[i])
    THEN [kind |-> "InvalidValueError", ports |-> ports]
    ELSE [kind |-> "ok", ports |-> ports \o r]

\* lines 101-102: start and end from the first and the last number
RangeBounds(first, last, ports) ==
    AppendRange(RangeOf(Min(first, last), Max(first, last)), ports)

\* lines 95-98: the numbers of port.split("-")
ParseRange(parts, ports) ==
    IF \E i \in 1..Len(parts) : ~IntOk(parts[i])
    THEN [kind |-> "InvalidFormatError", ports |-> ports]
    ELSE RangeBounds(Int_(parts[1]), Int_(parts[Len(parts)]), ports)

\* lines 111-114: a single port that int() has accepted
AppendPort(port, ports) ==
    IF ~PortInRange(port)
    THEN [kind |-> "InvalidValueError", ports |-> ports]
    ELSE [kind |-> "ok", ports |-> Append(ports, port)]

\* one iteration of  "for port in port_list"  on the list built so far;
\* the ValueError of int(port) at line 110 is not caught
ParseToken(port, ports) ==
    IF "-" \in SeqToSet(port) THEN ParseRange(Split(port, "-"), ports)
    ELSE IF ~IntOk(port) THEN [kind |-> "ValueError", ports |-> ports]
    ELSE AppendPort(Int_(port), ports)

\* the loop of lines 93-114 from the token port_list[i] on
RECURSIVE ParseLoop(_, _, _)
ParseLoop(port_list, i, r) ==
    IF i > Len(port_list) \/ r.kind # "ok" THEN r
    ELSE ParseLoop(port_list, i + 1, ParseToken(port_list[i], r.ports))

\* line 116: tuple(set(ports)), as the set of its elements
Returned(r) ==
    [kind |-> r.kind, ports |-> IF r.kind = "ok" THEN SeqToSet(r.ports) ELSE {}]

\* parse_ports(port_str): kind is "ok" or the name of the exception raised;
\* ports is the set of the returned ports when kind is "ok"
parse_ports(port_str) ==
    IF ~ReMatch(port_str)
    THEN [kind |-> "InvalidFormatError", ports |-> {}]
    ELSE Returned(ParseLoop(PortList(port_str), 1,
                            [kind |-> "ok", ports |-> <<>>]))

(***************************************************************************)
(* Port strings the parser is applied to.                                  *)
(***************************************************************************)
Alphabet == {"1", "2", "5", "-", ",", " ", "a", "_"}

AllStrings(n) == UNION {[1..k -> Alphabet] : k \in 0..n}

S_abc == <<"a", "b", "c">>
S_80abc == <<"8", "0", ",", "a", "b", "c">>
S_minus5 == <<"-", "5">>
S_example == <<"8", "0", ",", "4", "4", "3", ",",
               "8", "0", "8", "0", "-", "8", "0", "8", "2">>
S_70000 == <<"7", "0", "0", "0", "0">>
S_65535_65536 == <<"6", "5", "5", "3", "5", "-", "6", "5", "5", "3", "6">>
S_plus == <<"1", ",", "+", "5">>

ExampleStrings ==
    {S_abc, S_80abc, S_minus5, S_example, S_70000, S_65535_65536, S_plus}

PortStrings == AllStrings(MaxLen) \cup ExampleStrings

(***************************************************************************)
(* producer: host.replace("/32", ""), ipaddress.ip_network(host).hosts(),  *)
(* str(host), itertools.product(hosts, ports)                              *)
(***************************************************************************)
IsPrefixAt(s, sub, i) ==
    /\ i + Len(sub) - 1 <= Len(s)
    /\ \A j \in 1..Len(sub) : s[i + j - 1] = sub[j]

\* str.replace(sub, ""): every non-overlapping occurrence, left to right
RECURSIVE RemoveSub(_, _, _)
RemoveSub(s, sub, i) ==
    IF i > Len(s) THEN <<>>
    ELSE IF IsPrefixAt(s, sub, i) THEN RemoveSub(s, sub, i + Len(sub))
    ELSE <<s[i]>> \o RemoveSub(s, sub, i + 1)

RECURSIVE Pow2(_)
Pow2(n) == IF n = 0 THEN 1 ELSE 2 * Pow2(n - 1)

AllDigits(x) == x # <<>> /\ \A i \in 1..Len(x) : x[i] \in Digits

\* ipaddress: one octet of a dotted quad (decimal, at most 3 digits, no
\* leading zero, at most 255)
OctetOk(x) ==
    /\ AllDigits(x)
    /\ Len(x) <= 3
    /\ ~(Len(x) > 1 /\ x[1] = "0")
    /\ DigitBodyVal(x, 0) <= 255

QuadOk(o) == Len(o) = 4 /\ \A i \in 1..4 : OctetOk(o[i])

AddressOk(a) == QuadOk(Split(a, "."))

QuadInt(o) ==
    ((DigitBodyVal(o[1], 0) * 256 + DigitBodyVal(o[2], 0)) * 256
        + DigitBodyVal(o[3], 0)) * 256 + DigitBodyVal(o[4], 0)

AddressInt(a) == QuadInt(Split(a, "."))

\* ipaddress: a prefix length given as decimal digits, at most 32
PrefixOk(x) == AllDigits(x) /\ Len(x) <= 2 /\ DigitBodyVal(x, 0) <= 32

BadNetwork == [kind |-> "ValueError", net |-> 0, prefix |-> 0]

\* strict mode: an address with host bits set is no network
StrictNetwork(addr, prefix) ==
    IF addr % Pow2(32 - prefix) # 0 THEN BadNetwork
    ELSE [kind |-> "ok", net |-> addr, prefix |-> prefix]

NetworkOf(parts) ==
    IF Len(parts) > 2 \/ ~AddressOk(parts[1]) THEN BadNetwork
    ELSE IF Len(parts) = 1 THEN StrictNetwork(AddressInt(parts[1]), 32)
    ELSE IF ~PrefixOk(parts[2]) THEN BadNetwork
    ELSE StrictNetwork(AddressInt(parts[1]), DigitBodyVal(parts[2], 0))

\* ipaddress.ip_network(host): kind "ValueError" when the text is no IPv4
\* network (address/prefixlen) or has host bits set
ip_network(h) == NetworkOf(Split(h, "/"))

\* IPv4Network.hosts(): the single address of a /32, both addresses of a
\* /31, otherwise everything but the network and broadcast addresses
NetworkHosts(n) ==
    IF n.prefix = 32 THEN <<n.net>>
    ELSE IF n.prefix = 31 THEN <<n.net, n.net + 1>>
    ELSE [i \in 1..(Pow2(32 - n.prefix) - 2) |-> n.net + i]

\* str(n) of a non-negative integer
RECURSIVE IntToStr(_)
IntToStr(n) ==
    IF n < 10 THEN <<DigitChar(n)>>
    ELSE Append(IntToStr(n \div 10), DigitChar(n % 10))

\* str(host) of an IPv4Address
IPv4Str(a) ==
    IntToStr(a \div 16777216) \o <<".">> \o IntToStr((a \div 65536) % 256)
        \o <<".">> \o IntToStr((a \div 256) % 256) \o <<".">>
        \o IntToStr(a % 256)

\* line 130: [str(host) for host in ....hosts()]
HostStrings(hs) == [i \in 1..Len(hs) |-> IPv4Str(hs[i])]

\* lines 129-132: ValueError becomes InvalidFormatError
HostsOf(n) ==
    IF n.kind # "ok" THEN [kind |-> "InvalidFormatError", hosts |-> <<>>]
    ELSE [kind |-> "ok", hosts |-> HostStrings(NetworkHosts(n))]

\* lines 127-132: the list hosts, or InvalidFormatError
ExpandHosts(h) == HostsOf(ip_network(RemoveSub(h, <<"/", "3", "2">>, 1)))

\* the addresses and the ports paired position by position
Product_zip(hosts, ports, timeout) ==
    [k \in 1..Min(Len(hosts), Len(ports)) |-> <<hosts[k], ports[k], timeout>>]

\* lines 134-135: the tasks in the order itertools.product yields them
Product(hosts, ports, timeout) ==
    [k \in 1..(Len(hosts) * Len(ports)) |->
        <<hosts[((k - 1) \div Len(ports)) + 1],
          ports[((k - 1) % Len(ports)) + 1], timeout>>]

\* the tuples tuple(set(ports)) may be: the ports in some order
TuplesOf(S) ==
    {s \in [1..Cardinality(S) -> S] :
        \A i, j \in 1..Cardinality(S) : i # j => s[i] # s[j]}

(***************************************************************************)
(* split_addr and list.sort(key=split_addr)                                *)
(***************************************************************************)
\* split_addr((ip, port)) = (octet1, octet2, octet3, octet4, port)
\* code point of a character of an address
Ord(ch) == IF ch = "." THEN 46 ELSE 48 + DigitVal(ch)

\* the key (ip, port) with the address left as text
split_addr_text(ip_port) ==
    [i \in 1..Len(ip_port[1]) |-> Ord(ip_port[1][i])] \o <<0, ip_port[2]>>

IntEach(o) == [i \in 1..Len(o) |-> Int_(o[i])]

\* ip.split(".") is evaluated once, int() is applied to each piece
split_addr(ip_port) ==
    CHOOSE key \in {Append(IntEach(o), ip_port[2]) :
                        o \in {Split(ip_port[1], ".")}} : TRUE

\* Python's  a < b  on tuples of integers
RECURSIVE TupleLess(_, _)
TupleLess(a, b) ==
    IF b = <<>> THEN FALSE
    ELSE IF a = <<>> THEN TRUE
    ELSE IF Head(a) # Head(b) THEN Head(a) < Head(b)
    ELSE TupleLess(Tail(a), Tail(b))

\* list.sort(key=...) computes the key of every element once, before it
\* compares any two
RECURSIVE SortKeys(_)
SortKeys(s) ==
    IF s = <<>> THEN <<>>
    ELSE Append(SortKeys(SubSeq(s, 1, Len(s) - 1)), split_addr(s[Len(s)]))

\* list.sort is stable: s[j] comes before s[i] when its key is smaller, or
\* when neither key is smaller and it stood before s[i] in the list
SortsBefore(keys, j, i) ==
    \/ TupleLess(keys[j], keys[i])
    \/ j < i /\ ~TupleLess(keys[i], keys[j])

\* the position of s[i] in the sorted list
SortedPos(keys, i) ==
    1 + Cardinality({j \in 1..Len(keys) : SortsBefore(keys, j, i)})

\* s rearranged by the keys of its elements
SortedBy(s, keys) ==
    [p \in 1..Len(s) |-> s[CHOOSE i \in 1..Len(s) : SortedPos(keys, i) = p]]

\* the list left in arrival order
SortAddrs_none(s) == s

\* open_ports.sort(key=split_addr)
SortAddrs(s) == CHOOSE r \in {SortedBy(s, keys) : keys \in {SortKeys(s)}} : TRUE

(***************************************************************************)
(* Inputs of a scan.                                                       *)
(***************************************************************************)
P10 == <<"1", "0", ".", "0", ".", "0", ".">>

H_single == P10 \o <<"5", "/", "3", "2">>
H_pair == P10 \o <<"8", "/", "3", "0">>
H_low == P10 \o <<"0", "/", "3", "0">>
H_hostbits == P10 \o <<"9", "/", "3", "0">>
H_short == <<"1", "0", ".", "0", ".", "0">>

HostSpecs == {H_single, H_pair, H_low, H_hostbits, H_short}

S_80_443 == <<"8", "0", ",", "4", "4", "3">>
S_1 == <<"1">>
S_none == <<",">>
S_a == <<"a">>
S_1a == <<"1", "a">>

ScanPortStrings == {S_80_443, S_1, S_none, S_a, S_1a, S_70000}

\* what asyncio.wait_for(open_connection(ip, port), timeout) does for an
\* endpoint: connects, raises asyncio.TimeoutError, or raises another
\* error (ConnectionRefusedError and the other OSErrors)
Outcomes == {"open", "timeout", "refused"}

Consumers == 1..MAX_CONSUMERS

\* the task_queue.join() task among the tasks asyncio.wait watches
JoinTask == 0

NoTask == <<>>

Key(task) == <<task[1], task[2]>>

VARIABLES
    host,          \* orchestrator's host argument
    port_str,      \* orchestrator's port_str argument
    parsed,        \* outcome of parse_ports(port_str)
    conn,          \* the network: (ip, port) -> outcome of a connection
    task_queue,    \* asyncio.Queue of (ip, port, timeout)
    unfinished,    \* task_queue._unfinished_tasks
    result_queue,  \* asyncio.Queue of (ip, port)
    pc,            \* state of each consumer task
    cur,           \* the task a consumer holds while it connects
    join_pc,       \* state of the task_queue.join() task
    ready,         \* the event loop's FIFO of scheduled callbacks
    counter,       \* asyncio.wait: tasks not yet seen done
    waiter,        \* asyncio.wait: its waiter future is resolved
    main_pc,       \* orchestrator: "init", "waiting", "returned", "raised"
    main_err,      \* the exception that left orchestrator
    drained,       \* open_ports before the sort
    open_ports,    \* open_ports after the sort
    reported,      \* print_addrs(open_ports) was called
    status,        \* history: what became of each task
    owner,         \* history: the consumer that dequeued each task
    dequeued,      \* history: how often each task left the task queue
    connections    \* endpoints with an established, unclosed connection

vars == <<host, port_str, parsed, conn, task_queue, unfinished, result_queue,
          pc, cur, join_pc, ready, counter, waiter, main_pc, main_err,
          drained, open_ports, reported, status, owner, dequeued,
          connections>>

scanVars == <<conn, task_queue, unfinished, result_queue, pc, cur, join_pc,
              ready, counter, waiter, main_pc, main_err, drained, open_ports,
              reported, status, owner, dequeued, connections>>

NotParsed == [kind |-> "pending", ports |-> {}]

Idle ==
    /\ parsed = NotParsed
    /\ conn = <<>>
    /\ task_queue = <<>>
    /\ unfinished = 0
    /\ result_queue = <<>>
    /\ pc = [c \in Consumers |-> "none"]
    /\ cur = [c \in Consumers |-> NoTask]
    /\ join_pc = "none"
    /\ ready = <<>>
    /\ counter = 0
    /\ waiter = FALSE
    /\ main_pc = "init"
    /\ main_err = "none"
    /\ drained = <<>>
    /\ open_ports = <<>>
    /\ reported = FALSE
    /\ status = <<>>
    /\ owner = <<>>
    /\ dequeued = <<>>
    /\ connections = {}

(***************************************************************************)
(* The parser on its own: parse_ports applied to every port string.        *)
(***************************************************************************)
InitParse ==
    /\ port_str \in PortStrings
    /\ host = H_single
    /\ Idle

\* a call parse_ports(port_str)
ParsePorts ==
    /\ parsed = NotParsed
    /\ parsed' = parse_ports(port_str)
    /\ UNCHANGED <<host, port_str, scanVars>>

NextParse == ParsePorts

SpecParse == InitParse /\ [][NextParse]_vars

(***************************************************************************)
(* The scan: orchestrator, the consumers and the join task on the event    *)
(* loop.  A step runs from one suspension point to the next.  Callbacks    *)
(* the program schedules (a task's first step, the wake-up of the join     *)
(* task, asyncio.wait's completion callbacks, the resumption of            *)
(* orchestrator) run in FIFO order; the completion of a connection         *)
(* attempt arrives from the network at any time after the first pass.      *)
(***************************************************************************)
Init ==
    /\ host \in HostSpecs
    /\ port_str \in ScanPortStrings
    /\ Idle

Step(w) == [kind |-> "step", who |-> w]
Callback(w) == [kind |-> "cb", who |-> w]
Resume == [kind |-> "main", who |-> JoinTask]

\* a result put whatever the attempt did
Emits_always(outcome) == TRUE

\* lines 144-149: the else branch puts a result only when the attempt
\* raised nothing
Emits(outcome) == outcome = "open"

\* no except clause: a timeout leaves the consumer like any other error
Escapes_NoExcept(outcome) == outcome # "open"

\* lines 146-147: asyncio.TimeoutError is the only exception caught
Escapes(outcome) == outcome \notin {"open", "timeout"}

\* line 145: wait_for returns the (reader, writer) of an established
\* connection; the consumer keeps neither and closes nothing
Connects(outcome) == outcome = "open"

\* the count after a task_done() placed in the else branch
AfterTaskDone_ElseOnly(n, outcome) == IF outcome = "open" THEN n - 1 ELSE n

\* lines 150-151: task_queue.task_done() in the finally clause
AfterTaskDone(n, outcome) == n - 1

\* asyncio.wait installs its completion callback on every task and removes
\* it when it returns
Watched(w) == IF main_pc = "waiting" THEN <<Callback(w)>> ELSE <<>>

\* task_queue.task_done() bringing the count to n: Event.set() wakes join
JoinWake(n) ==
    IF n = 0 /\ join_pc = "waiting" /\ \A i \in 1..Len(ready) : ready[i] # Step(JoinTask)
    THEN <<Step(JoinTask)>> ELSE <<>>

\* the pool created whatever parse_ports and producer did
ReachesPool_always(p, e) == TRUE

\* lines 175-183: the consumers are created only when neither parse_ports
\* nor producer has raised
ReachesPool(p, e) == p.kind = "ok" /\ e.kind = "ok"

\* lines 134-135 and the network the scan meets: every task is put on the
\* queue; each endpoint has one fixed behaviour
Enqueue(tasks, keys) ==
    /\ task_queue' = tasks
    /\ unfinished' = Len(tasks)
    /\ conn' \in [keys -> Outcomes]
    /\ status' = [k \in keys |-> "queued"]
    /\ owner' = [k \in keys |-> JoinTask]
    /\ dequeued' = [k \in keys |-> 0]

KeysOf(tasks) == {Key(tasks[i]) : i \in 1..Len(tasks)}

\* lines 119-135: producer(host, ports, timeout, task_queue)
producer(e, ports, timeout) ==
    IF e.kind = "ok"
    THEN Enqueue(Product(e.hosts, ports, timeout),
                 KeysOf(Product(e.hosts, ports, timeout)))
    ELSE Enqueue(<<>>, {})

\* one consumer per task, up to MAX_CONSUMERS
CreatePool_min ==
    /\ pc' = [c \in Consumers |->
                 IF c <= Len(task_queue') THEN "new" ELSE "none"]
    /\ join_pc' = "new"
    /\ ready' = [i \in 1..Min(MAX_CONSUMERS, Len(task_queue')) |-> Step(i)]
                    \o <<Step(JoinTask)>>
    /\ counter' = Min(MAX_CONSUMERS, Len(task_queue')) + 1
    /\ main_pc' = "waiting"
    /\ main_err' = "none"

\* lines 182-191: the pool, the join task, and the suspension in wait
CreatePool ==
    /\ pc' = [c \in Consumers |-> "new"]
    /\ join_pc' = "new"
    /\ ready' = [i \in 1..(MAX_CONSUMERS + 1) |->
                    IF i <= MAX_CONSUMERS THEN Step(i) ELSE Step(JoinTask)]
    /\ counter' = MAX_CONSUMERS + 1
    /\ main_pc' = "waiting"
    /\ main_err' = "none"

\* orchestrator with p = parse_ports(port_str) and e the expansion of host
StartWith(p, e) ==
    /\ parsed' = p
    /\ \E ports \in TuplesOf(p.ports) : producer(e, ports, DefaultTimeout)
    /\ IF ReachesPool(p, e)
       THEN CreatePool
       ELSE /\ main_pc' = "raised"
            /\ main_err' = IF p.kind # "ok" THEN p.kind ELSE e.kind
            /\ UNCHANGED <<pc, join_pc, ready, counter>>

\* line 179 is reached only when line 175 has not raised
ExpandAfter(p, h) ==
    IF p.kind = "ok" THEN ExpandHosts(h)
    ELSE [kind |-> "skipped", hosts |-> <<>>]

\* lines 175-191: parse, produce, create the consumers and the join task,
\* suspend in asyncio.wait
OrchestratorStart ==
    /\ main_pc = "init"
    /\ StartWith(parse_ports(port_str),
                 ExpandAfter(parse_ports(port_str), host))
    /\ UNCHANGED <<host, port_str, result_queue, cur, waiter, drained,
                   open_ports, reported, connections>>

\* no test of empty(): get() on an empty queue suspends the consumer
LoopHead_NoEmptyTest(c, sched) ==
    IF task_queue = <<>>
    THEN /\ pc' = [pc EXCEPT ![c] = "blocked"]
         /\ cur' = [cur EXCEPT ![c] = NoTask]
         /\ ready' = sched
         /\ UNCHANGED <<task_queue, owner, dequeued>>
    ELSE /\ pc' = [pc EXCEPT ![c] = "connecting"]
         /\ cur' = [cur EXCEPT ![c] = Head(task_queue)]
         /\ task_queue' = Tail(task_queue)
         /\ owner' = [owner EXCEPT ![Key(Head(task_queue))] = c]
         /\ dequeued' = [dequeued EXCEPT ![Key(Head(task_queue))] = @ + 1]
         /\ ready' = sched

\* the head of the queue read but left on the queue
LoopHead_Peek(c, sched) ==
    IF task_queue = <<>>
    THEN /\ pc' = [pc EXCEPT ![c] = "done"]
         /\ cur' = [cur EXCEPT ![c] = NoTask]
         /\ ready' = sched \o Watched(c)
         /\ UNCHANGED <<task_queue, owner, dequeued>>
    ELSE /\ pc' = [pc EXCEPT ![c] = "connecting"]
         /\ cur' = [cur EXCEPT ![c] = Head(task_queue)]
         /\ task_queue' = task_queue
         /\ owner' = [owner EXCEPT ![Key(Head(task_queue))] = c]
         /\ dequeued' = [dequeued EXCEPT ![Key(Head(task_queue))] = @ + 1]
         /\ ready' = sched

\* lines 141-142: the loop test and the get() that follows it without a
\* suspension; sched is what the step has scheduled before it
LoopHead(c, sched) ==
    IF task_queue = <<>>
    THEN /\ pc' = [pc EXCEPT ![c] = "done"]
         /\ cur' = [cur EXCEPT ![c] = NoTask]
         /\ ready' = sched \o Watched(c)
         /\ UNCHANGED <<task_queue, owner, dequeued>>
    ELSE /\ pc' = [pc EXCEPT ![c] = "connecting"]
         /\ cur' = [cur EXCEPT ![c] = Head(task_queue)]
         /\ task_queue' = Tail(task_queue)
         /\ owner' = [owner EXCEPT ![Key(Head(task_queue))] = c]
         /\ dequeued' = [dequeued EXCEPT ![Key(Head(task_queue))] = @ + 1]
         /\ ready' = sched

\* the first step of consumer c, up to its first wait_for
ConsumerStart(c) ==
    /\ ready # <<>> /\ Head(ready) = Step(c)
    /\ pc[c] = "new"
    /\ LoopHead(c, Tail(ready))
    /\ status' = IF task_queue = <<>> THEN status
                 ELSE [status EXCEPT ![Key(Head(task_queue))] = "inflight"]
    /\ UNCHANGED <<host, port_str, parsed, conn, unfinished, result_queue,
                   join_pc, counter, waiter, main_pc, main_err, drained,
                   open_ports, reported, connections>>

\* lines 145-151 and back to 141-142: the attempt of consumer c completes
ConsumerResume(c) ==
    /\ pc[c] = "connecting"
    /\ join_pc # "new"
    /\ LET k == Key(cur[c])
           o == conn[k]
           n == AfterTaskDone(unfinished, o)
       IN  /\ result_queue' = IF Emits(o) THEN Append(result_queue, k)
                              ELSE result_queue
           /\ connections' = IF Connects(o) THEN connections \cup {k}
                             ELSE connections
           /\ unfinished' = n
           /\ IF Escapes(o)
              THEN /\ pc' = [pc EXCEPT ![c] = "failed"]
                   /\ cur' = [cur EXCEPT ![c] = NoTask]
                   /\ ready' = ready \o JoinWake(n) \o Watched(c)
                   /\ status' = [status EXCEPT ![k] = o]
                   /\ UNCHANGED <<task_queue, owner, dequeued>>
              ELSE /\ LoopHead(c, ready \o JoinWake(n))
                   /\ status' = IF task_queue = <<>>
                                THEN [status EXCEPT ![k] = o]
                                ELSE [status EXCEPT ![k] = o,
                                        ![Key(Head(task_queue))] = "inflight"]
    /\ UNCHANGED <<host, port_str, parsed, conn, join_pc, counter, waiter,
                   main_pc, main_err, drained, open_ports, reported>>

\* task_queue.join(): returns at once when nothing is unfinished, else
\* waits for the event and returns when woken
JoinStep ==
    /\ ready # <<>> /\ Head(ready) = Step(JoinTask)
    /\ join_pc \in {"new", "waiting"}
    /\ IF join_pc = "new" /\ unfinished > 0
       THEN /\ join_pc' = "waiting"
            /\ ready' = Tail(ready)
       ELSE /\ join_pc' = "done"
            /\ ready' = Tail(ready) \o Watched(JoinTask)
    /\ UNCHANGED <<host, port_str, parsed, conn, task_queue, unfinished,
                   result_queue, pc, cur, counter, waiter, main_pc, main_err,
                   drained, open_ports, reported, status, owner, dequeued,
                   connections>>

\* asyncio.wait(..., return_when=FIRST_EXCEPTION): the completion callback
\* of a watched task resolves the waiter when the task raised or when no
\* task is left
OnCompletion ==
    /\ ready # <<>> /\ Head(ready).kind = "cb"
    /\ LET w == Head(ready).who
           raised == w # JoinTask /\ pc[w] = "failed"
           fire == (counter - 1 <= 0 \/ raised) /\ ~waiter
       IN  /\ counter' = counter - 1
           /\ waiter' = (waiter \/ fire)
           /\ ready' = Tail(ready) \o (IF fire THEN <<Resume>> ELSE <<>>)
    /\ UNCHANGED <<host, port_str, parsed, conn, task_queue, unfinished,
                   result_queue, pc, cur, join_pc, main_pc, main_err, drained,
                   open_ports, reported, status, owner, dequeued, connections>>

\* line 195: task.done()
TaskDone(c) == pc[c] \in {"done", "failed", "cancelled"}

\* no look at the finished consumers after asyncio.wait
Reraises_never == FALSE

\* lines 193-196: task.result() of a finished consumer re-raises its error
Reraises ==
    /\ join_pc # "done"
    /\ \E c \in Consumers : TaskDone(c) /\ pc[c] = "failed"

\* lines 199-205: drain the result queue, sort, print
Report(q) ==
    /\ drained' = q
    /\ result_queue' = <<>>
    /\ open_ports' = SortAddrs(q)
    /\ reported' = TRUE

\* the results drained and printed before the error is looked for
OrchestratorWake_DrainFirst ==
    /\ ready # <<>> /\ Head(ready) = Resume
    /\ main_pc = "waiting"
    /\ ready' = Tail(ready)
    /\ Report(result_queue)
    /\ main_pc' = IF Reraises THEN "raised" ELSE "returned"
    /\ main_err' = IF Reraises THEN "OSError" ELSE main_err
    /\ UNCHANGED <<host, port_str, parsed, conn, task_queue, unfinished, pc,
                   cur, join_pc, counter, waiter, status, owner, dequeued,
                   connections>>

\* lines 193-205: orchestrator resumes from asyncio.wait
OrchestratorWake ==
    /\ ready # <<>> /\ Head(ready) = Resume
    /\ main_pc = "waiting"
    /\ ready' = Tail(ready)
    /\ IF Reraises
       THEN /\ main_pc' = "raised"
            /\ main_err' = "OSError"
            /\ UNCHANGED <<result_queue, drained, open_ports, reported>>
       ELSE /\ main_pc' = "returned"
            /\ Report(result_queue)
            /\ UNCHANGED main_err
    /\ UNCHANGED <<host, port_str, parsed, conn, task_queue, unfinished, pc,
                   cur, join_pc, counter, waiter, status, owner, dequeued,
                   connections>>

\* lines 234-236: asyncio.run cancels the tasks still pending once
\* orchestrator has finished; a consumer cancelled in wait_for runs its
\* finally clause
RunCancel(w) ==
    /\ main_pc \in {"returned", "raised"}
    /\ IF w = JoinTask
       THEN /\ join_pc = "waiting"
            /\ \A i \in 1..Len(ready) : ready[i] # Step(JoinTask)
            /\ join_pc' = "cancelled"
            /\ UNCHANGED <<unfinished, pc, cur, ready, status>>
       ELSE /\ pc[w] = "connecting"
            /\ pc' = [pc EXCEPT ![w] = "cancelled"]
            /\ cur' = [cur EXCEPT ![w] = NoTask]
            /\ unfinished' = AfterTaskDone(unfinished, "cancelled")
            /\ status' = [status EXCEPT ![Key(cur[w])] = "cancelled"]
            /\ ready' = ready \o JoinWake(AfterTaskDone(unfinished, "cancelled"))
            /\ UNCHANGED join_pc
    /\ UNCHANGED <<host, port_str, parsed, conn, task_queue, result_queue,
                   counter, waiter, main_pc, main_err, drained, open_ports,
                   reported, owner, dequeued, connections>>

\* the stream of an established connection is dropped at line 145 without
\* a close: when the socket is released is left to the interpreter's
\* finalizers, at any time or not before the loop is torn down
Finalize ==
    /\ \E k \in connections : connections' = connections \ {k}
    /\ UNCHANGED <<host, port_str, parsed, conn, task_queue, unfinished,
                   result_queue, pc, cur, join_pc, ready, counter, waiter,
                   main_pc, main_err, drained, open_ports, reported, status,
                   owner, dequeued>>

Next ==
    \/ OrchestratorStart
    \/ \E c \in Consumers : ConsumerStart(c)
    \/ \E c \in Consumers : ConsumerResume(c)
    \/ JoinStep
    \/ OnCompletion
    \/ OrchestratorWake
    \/ \E w \in Consumers \cup {JoinTask} : RunCancel(w)
    \/ Finalize

Spec == Init /\ [][Next]_vars

\* the network of a scan in which every attempt connects or times out
NoRefusal == \A k \in DOMAIN conn : conn[k] # "refused"

\* the steps of a started scan: the event loop runs every callback it has
\* scheduled, and wait_for ends every attempt within its timeout
Progress ==
    \/ \E c \in Consumers : ConsumerStart(c)
    \/ \E c \in Consumers : ConsumerResume(c)
    \/ JoinStep
    \/ OnCompletion
    \/ OrchestratorWake

\* scans against such a network; asyncio.run finds nothing to cancel in them
NextLive ==
    \/ OrchestratorStart /\ NoRefusal'
    \/ Progress
    \/ Finalize

FairSpec == Init /\ [][NextLive]_vars /\ WF_vars(Progress)

(***************************************************************************)
(* Properties.                                                             *)
(***************************************************************************)
Finished == main_pc \in {"returned", "raised"}

ParseErrors == {"InvalidFormatError", "InvalidValueError", "ValueError"}

OpenKeys == {k \in DOMAIN conn : conn[k] = "open"}

\* the address a dotted quad denotes, found through str() alone
KnownAddrs == 167772160..167772175

AddrOf(ip) == CHOOSE a \in KnownAddrs : IPv4Str(a) = ip

\* (octets, port) of a before or equal to that of b, octets as integers
NumericLE(a, b) ==
    \/ AddrOf(a[1]) < AddrOf(b[1])
    \/ AddrOf(a[1]) = AddrOf(b[1]) /\ a[2] <= b[2]

IsSortedNumeric(s) ==
    \A i, j \in 1..Len(s) : i < j => NumericLE(s[i], s[j])

Count(x, s) == Cardinality({i \in 1..Len(s) : s[i] = x})

IsPermutation(s, t) ==
    /\ Len(s) = Len(t)
    /\ \A i \in 1..Len(s) : Count(s[i], s) = Count(s[i], t)

\* C1: a scan in which exactly one probed endpoint accepts a connection
\* ends by reporting exactly that endpoint, once.
C1_OneOpenReported ==
    (Finished /\ main_err \notin ParseErrors /\ Cardinality(OpenKeys) = 1)
        => (main_pc = "returned" /\ \E k \in OpenKeys : open_ports = <<k>>)

\* C2: an attempt that fails with an error other than a timeout is a closed
\* port: its consumer does not end with an error and the scan raises none.
C2_RefusedIsClosed ==
    \A k \in DOMAIN status :
        status[k] = "refused"
            => (pc[owner[k]] # "failed" /\ main_err # "OSError")

\* C3: orchestrator never completes normally after a consumer has ended
\* with an error.
C3_FailureReraised ==
    main_pc = "returned" => \A c \in Consumers : pc[c] # "failed"

\* the step of consumer c that follows an attempt it leaves without error
Continues(c) ==
    /\ pc'[c] \in {"connecting", "done"}
    /\ task_queue = <<>> => pc'[c] = "done"
    /\ task_queue # <<>> =>
          /\ pc'[c] = "connecting"
          /\ cur'[c] = Head(task_queue)
          /\ task_queue' = Tail(task_queue)

TimesOut(k) == status[k] = "inflight" /\ status'[k] = "timeout"

\* C4: when an attempt times out, the consumer puts nothing on the result
\* queue, marks the task done, raises nothing and goes on with the next
\* queued task.
C4_TimeoutIsClosed ==
    [][\A k \in DOMAIN status :
          TimesOut(k) => /\ result_queue' = result_queue
                         /\ unfinished' = unfinished - 1
                         /\ Continues(owner[k])]_vars

C4_Witness ==
    \E k \in DOMAIN status :
        /\ status[k] = "timeout"
        /\ pc[owner[k]] = "connecting"
        /\ owner[Key(cur[owner[k]])] = owner[k]
        /\ \A i \in 1..Len(result_queue) : result_queue[i] # k

A1 == <<"1", "0", ".", "0", ".", "0", ".", "1">>
A2 == <<"1", "0", ".", "0", ".", "0", ".", "2">>

UnsortedExample == <<<<A2, 80>>, <<A1, 443>>, <<A1, 80>>>>
SortedExample == <<<<A1, 80>>, <<A1, 443>>, <<A2, 80>>>>

\* C5: the reported sequence is a permutation of the drained results in
\* ascending order of (octets as integers, port); the drained list
\* [(10.0.0.2,80), (10.0.0.1,443), (10.0.0.1,80)] is reported as
\* [(10.0.0.1,80), (10.0.0.1,443), (10.0.0.2,80)].
C5_SortedPermutation ==
    main_pc = "returned" =>
        /\ IsPermutation(open_ports, drained)
        /\ IsSortedNumeric(open_ports)
        /\ drained = UnsortedExample => open_ports = SortedExample

C5_Witness ==
    /\ main_pc = "returned"
    /\ drained = UnsortedExample
    /\ open_ports = SortedExample

\* the one sorted listing of the endpoints that accept a connection
ExpectedOutput ==
    CHOOSE s \in TuplesOf(OpenKeys) : IsSortedNumeric(s)

SetupFails ==
    parse_ports(port_str).kind # "ok" \/ ExpandHosts(host).kind # "ok"

\* C7: when parse_ports or producer fails, orchestrator raises that error
\* with no consumer created, no task dequeued, no result and no report.
C7_AbortBeforeWorkers ==
    (SetupFails /\ main_pc # "init") =>
        /\ main_pc = "raised"
        /\ main_err \in ParseErrors
        /\ \A c \in Consumers : pc[c] = "none"
        /\ join_pc = "none"
        /\ \A k \in DOMAIN status : status[k] = "queued"
        /\ result_queue = <<>>
        /\ ~reported

C7_Witness ==
    /\ main_pc = "raised"
    /\ parsed.kind = "ok"
    /\ parsed.ports # {}
    /\ main_err = "InvalidFormatError"

\* C8: when orchestrator re-raises a consumer's error nothing is reported,
\* and the results emitted so far stay undrained on the result queue.
C8_AbortDiscards ==
    (main_pc = "raised" /\ main_err = "OSError") =>
        /\ ~reported
        /\ drained = <<>>
        /\ open_ports = <<>>
        /\ \A k \in DOMAIN status :
              status[k] = "open" => k \in SeqToSet(result_queue)

C8_Witness ==
    /\ main_pc = "raised"
    /\ main_err = "OSError"
    /\ result_queue # <<>>

HasForeignChar(s) == \E i \in 1..Len(s) : s[i] \notin PortChars

\* C9: every port string with a character outside digits, '-', ',' and
\* whitespace, and the string "-5", fails with InvalidFormatError.
C9_ForeignCharIsFormatError ==
    (parsed # NotParsed /\ (HasForeignChar(port_str) \/ port_str = S_minus5))
        => parsed.kind = "InvalidFormatError"

\* the ports min .. max-1 of the first and last number of a range token
HalfOpen(parts) == Min(Int_(parts[1]), Int_(parts[Len(parts)]))
                      .. (Max(Int_(parts[1]), Int_(parts[Len(parts)])) - 1)

Contribution(token) ==
    IF "-" \in SeqToSet(token) THEN HalfOpen(Split(token, "-"))
    ELSE {Int_(token)}

UnionOfTokens(tokens) ==
    UNION {Contribution(tokens[i]) : i \in 1..Len(tokens)}

\* C10: a range token a-b contributes min(a,b) .. max(a,b)-1 and the result
\* is the union of the tokens' ports; "80,443,8080-8082" gives
\* {80, 443, 8080, 8081}.
C10_HalfOpenUnion ==
    parsed.kind = "ok" =>
        /\ parsed.ports = UnionOfTokens(PortList(port_str))
        /\ port_str = S_example => parsed.ports = {80, 443, 8080, 8081}

C10_Witness ==
    /\ port_str = S_example
    /\ parsed.kind = "ok"
    /\ parsed.ports = {80, 443, 8080, 8081}

\* a number written in the token lies outside 0..65535
PartOutOfRange(part) ==
    IntOk(part) /\ ~(0 <= Int_(part) /\ Int_(part) <= 65535)

TokenOutOfRange(parts) == \E i \in 1..Len(parts) : PartOutOfRange(parts[i])

HasOutOfRangeToken(tokens) ==
    \E i \in 1..Len(tokens) : TokenOutOfRange(Split(tokens[i], "-"))

\* C11: every returned port lies in 0..65535, and a port string with a
\* value outside 0..65535, as a single port or as a range bound, fails with
\* InvalidValueError.
C11_OutOfRangeIsValueError ==
    parsed # NotParsed =>
        /\ \A p \in parsed.ports : 0 <= p /\ p <= 65535
        /\ HasOutOfRangeToken(PortList(port_str))
              => parsed.kind = "InvalidValueError"

\* C12: every connection a consumer opened has been closed when the scan
\* finishes.
C12_ConnectionsClosed == Finished => connections = {}

\* C13: a task leaves the task queue at most once and is never put back:
\* no task is held by two consumers, a queued task was never dequeued, and
\* on normal completion every task was dequeued exactly once.
C13_DequeuedOnce ==
    /\ \A k \in DOMAIN dequeued : dequeued[k] <= 1
    /\ \A c1, c2 \in Consumers :
          (cur[c1] # NoTask /\ cur[c1] = cur[c2]) => c1 = c2
    /\ \A i \in 1..Len(task_queue) : dequeued[Key(task_queue[i])] = 0
    /\ main_pc = "returned" => \A k \in DOMAIN dequeued : dequeued[k] = 1

C13_Witness ==
    /\ main_pc = "returned"
    /\ Cardinality(DOMAIN dequeued) = 4
    /\ \E k1, k2 \in DOMAIN owner : owner[k1] # owner[k2]

InFlight == {k \in DOMAIN status : status[k] = "inflight"}

Processed(k) == status[k] \in {"open", "timeout", "refused", "cancelled"}

\* C14: each dequeued task is marked done exactly once whatever its outcome:
\* the unfinished count is the number of queued tasks plus the number in
\* flight, is never negative, is zero exactly when every task has been
\* processed, and the join completes only then.
C14_DoneExactlyOnce ==
    /\ unfinished = Len(task_queue) + Cardinality(InFlight)
    /\ unfinished >= 0
    /\ unfinished = 0 <=> \A k \in DOMAIN status : Processed(k)
    /\ join_pc = "done" => unfinished = 0

C14_Witness ==
    /\ join_pc = "done"
    /\ unfinished = 0
    /\ \E k \in DOMAIN status : status[k] = "cancelled"
    /\ \E k \in DOMAIN status : status[k] = "refused"
    /\ \E k \in DOMAIN status : status[k] = "timeout"

\* C15: when orchestrator has re-raised a consumer's error no consumer is
\* still running, and on normal completion no consumer was cancelled or is
\* still running.
C15_CancelsPending ==
    /\ (main_pc = "raised" /\ main_err = "OSError")
          => \A c \in Consumers : pc[c] \notin {"new", "connecting"}
    /\ main_pc = "returned"
          => \A c \in Consumers : pc[c] \in {"done", "failed"}

ScanRuns == main_pc = "waiting" /\ NoRefusal

ScanEnded ==
    /\ main_pc = "returned"
    /\ reported
    /\ join_pc = "done"
    /\ unfinished = 0
    /\ \A c \in Consumers : pc[c] = "done"
    /\ \A k \in DOMAIN status : dequeued[k] = 1 /\ Processed(k)

\* C16: when every attempt connects or times out, a scan with any number of
\* tasks ends normally: every task is dequeued and marked done, every
\* consumer exits, the join completes and orchestrator drains and reports.
C16_Terminates == ScanRuns ~> ScanEnded

C16_Witness ==
    /\ ScanEnded
    /\ NoRefusal
    /\ \E k \in DOMAIN status : status[k] = "timeout"
    /\ \E k \in DOMAIN status : status[k] = "open"

\* the results the consumers have put on the result queue so far
Emitted == {k \in DOMAIN status : status[k] = "open"}

\* C17: orchestrator drains only when every task is marked done; nothing is
\* put on the result queue afterwards, the queue is empty once drained, and
\* the drained list holds every emitted result exactly once and nothing else.
C17_DrainAfterDone ==
    reported =>
        /\ unfinished = 0
        /\ \A k \in DOMAIN status : Processed(k)
        /\ \A c \in Consumers : pc[c] \notin {"new", "connecting"}
        /\ result_queue = <<>>
        /\ SeqToSet(drained) = Emitted
        /\ \A k \in Emitted : Count(k, drained) = 1

C17_Witness ==
    /\ reported
    /\ Len(drained) >= 2
    /\ Cardinality(DOMAIN status \ Emitted) >= 1
    /\ connections = {}

\* k is the (address, port) of a task producer made from the arguments
IsTaskOf(k, hosts, ports) ==
    /\ Len(k) = 2
    /\ k[1] \in SeqToSet(hosts)
    /\ k[2] \in ports

\* k was enqueued, dequeued once by a consumer, and its attempt connected
Succeeded(k) ==
    /\ k \in DOMAIN conn
    /\ IsTaskOf(k, ExpandHosts(host).hosts, parsed.ports)
    /\ dequeued[k] = 1
    /\ owner[k] \in Consumers
    /\ conn[k] = "open"
    /\ status[k] = "open"

\* C18: every pair on the result queue is the (address, port) of a task
\* that producer enqueued, a consumer dequeued and whose attempt connected
\* within the timeout; no pair is on the result queue twice.
C18_ResultsAreSuccesses ==
    \A i \in 1..Len(result_queue) :
        /\ Succeeded(result_queue[i])
        /\ Count(result_queue[i], result_queue) = 1

C18_Witness ==
    /\ Len(result_queue) >= 2
    /\ \E k \in DOMAIN status : status[k] \in {"timeout", "refused"}
    /\ \E c \in Consumers : pc[c] = "connecting"

PoolCreated == \E c \in Consumers : pc[c] # "none"

\* every (address, port) of the expanded addresses and the parsed ports
AllPairs(hosts, ports) == {<<h, p>> : h \in SeqToSet(hosts), p \in ports}

\* how many times the pair k has been put on the task queue
TimesEnqueued(k) ==
    Cardinality({i \in 1..Len(task_queue) : Key(task_queue[i]) = k})
        + dequeued[k]

WholeProductEnqueued ==
    PoolCreated =>
        /\ DOMAIN dequeued = AllPairs(ExpandHosts(host).hosts, parsed.ports)
        /\ \A k \in DOMAIN dequeued : TimesEnqueued(k) = 1
        /\ (\A c \in Consumers : pc[c] = "new") =>
               Len(task_queue) = Cardinality(DOMAIN dequeued)

IsSuffix(s, t) ==
    \E n \in 0..Len(t) : s = SubSeq(t, n + 1, Len(t))

QueueOnlyShrinks == PoolCreated => IsSuffix(task_queue', task_queue)

Launched == {c \in Consumers : pc[c] # "none"}

Attempting == {c \in Consumers : pc[c] = "connecting"}

NumTasks == Cardinality(DOMAIN dequeued)

\* C20, with the pool sized by the tasks: the consumers launched are
\* min(MAX_CONSUMERS, number of tasks), and the attempts in flight never
\* exceed that number.
C20_PoolIsMinOfCapAndTasks ==
    PoolCreated =>
        /\ Cardinality(Launched) = Min(MAX_CONSUMERS, NumTasks)
        /\ Cardinality(InFlight) <= Min(MAX_CONSUMERS, NumTasks)

\* C20: orchestrator launches MAX_CONSUMERS consumers whatever the
\* number of tasks; each consumer has at most one attempt in flight, so the
\* attempts in flight never exceed min(MAX_CONSUMERS, number of tasks).
C20_PoolIsCap ==
    PoolCreated =>
        /\ Cardinality(Launched) = MAX_CONSUMERS
        /\ InFlight = {Key(cur[c]) : c \in Attempting}
        /\ \A c1, c2 \in Attempting : cur[c1] = cur[c2] => c1 = c2
        /\ \A c \in Consumers \ Attempting : cur[c] = NoTask
        /\ Cardinality(InFlight) <= Min(MAX_CONSUMERS, NumTasks)

C20_Witness ==
    /\ NumTasks = 1
    /\ Cardinality(InFlight) = 1
    /\ Cardinality(Launched) = MAX_CONSUMERS
    /\ \E c \in Consumers : pc[c] = "done"

====
